---------------------------- MODULE Spec2Model ----------------------------
(***************************************************************************)
(* A model of audio-folder/fft2.py: the AM demodulation batch pipeline     *)
(* (load_audio, analyze_spectrum, find_carrier_frequency, demodulate_am,   *)
(* apply_bandpass_filter, compare_signals, save_audio, main).              *)
(*                                                                         *)
(* Numbers.  A Python/NumPy float is modelled as an exact rational         *)
(* [num, den] in lowest terms (den > 0).  Integer-to-float conversions,    *)
(* divisions and comparisons are exact.  The results of cos/sin, of the    *)
(* Fourier sums and of the filter are rounded to the grid 1/Scale, the     *)
(* model's counterpart of floating-point rounding.  All integers stay      *)
(* within 32 bits.                                                         *)
(*                                                                         *)
(* Python calls.  A call either returns a value, Ret(v), or raises an      *)
(* exception, Raise(name).  main() has no try/except: an exception ends    *)
(* the run.                                                                *)
(***************************************************************************)
EXTENDS Integers, Sequences, FiniteSets, TLC

VARIABLES
    pc,                 \* main(): the statement about to run
    file,               \* the input file signal_modulated_noisy_audio.wav
    sample_rate,        \* main(): sample_rate
    audio_data,         \* main(): audio_data
    frequencies,        \* main(): frequencies
    magnitudes,         \* main(): magnitudes
    carrier_freq,       \* main(): carrier_freq
    demodulated_signal, \* main(): demodulated_signal
    filtered_signal,    \* main(): filtered_signal
    output,             \* the output file filtered_audio.wav
    error,              \* the exception that ended main(), if any
    visited,            \* history: the pipeline stages completed, in order
    calls,              \* history: the functions main() has called, in order
    figures,            \* matplotlib: the titles of the figures created
    fn_args,            \* a single call of one function: its arguments
    fn_ret,             \* a single call of one function: its result
    disk,               \* save/load round trip: the wav file on disk
    mem,                \* save/load round trip: the waveform in memory
    saved               \* history: the waveform that was last saved to disk

mainVars == <<pc, file, sample_rate, audio_data, frequencies, magnitudes,
              carrier_freq, demodulated_signal, filtered_signal, output,
              error, visited, calls, figures>>
fnVars == <<fn_args, fn_ret>>
ioVars == <<disk, mem, saved>>
vars == <<mainVars, fnVars, ioVars>>

----------------------------------------------------------------------------
(* Bounds of the model. *)

\* The longest signal handed to a single call of analyze_spectrum.
MaxN == 4
\* The longest signal whose frequency grid find_carrier_frequency searches.
MaxGridN == 8
\* The largest magnitude in a spectrum handed to find_carrier_frequency.
MaxMag == 2
\* The most calls of one function on the same arguments.
MaxCalls == 2
\* The most frames in a wav file of the save/load round trip.
MaxFrames == 2
\* The most samples by which a pipeline input exceeds the filter's padding.
MaxExtra == 1

\* The sample rates of the inputs, in Hz.
Rates == {2000, 8000, 12000, 44100}

----------------------------------------------------------------------------
(* Optional values and call results. *)

None == <<>>
Some(v) == <<v>>
Ret(v) == [ok |-> TRUE, val |-> v]
\* exc names the exception and at the call that raised it.
Raise(name, at) == [ok |-> FALSE, exc |-> name, at |-> at]

----------------------------------------------------------------------------
(* Rational arithmetic: the model of float arithmetic. *)

Abs(n) == IF n < 0 THEN -n ELSE n
Sign(n) == IF n < 0 THEN -1 ELSE IF n > 0 THEN 1 ELSE 0

RECURSIVE GCD(_, _)
GCD(a, b) == IF b = 0 THEN a ELSE GCD(b, a % b)

\* n/d in lowest terms, d # 0.
Rat(n, d) ==
    LET g == GCD(Abs(n), Abs(d))
    IN  [num |-> Sign(d) * (n \div g), den |-> Abs(d) \div g]
FromInt(n) == [num |-> n, den |-> 1]
Zero == FromInt(0)
One == FromInt(1)

RatMul(a, b) == Rat(a.num * b.num, a.den * b.den)
RatDiv(a, b) == Rat(a.num * b.den, a.den * b.num)
RatAdd(a, b) == Rat(a.num * b.den + b.num * a.den, a.den * b.den)
RatNeg(a) == [num |-> -a.num, den |-> a.den]
RatAbs(a) == [num |-> Abs(a.num), den |-> a.den]
RatLess(a, b) == a.num * b.den < b.num * a.den
RatLeq(a, b) == a.num * b.den <= b.num * a.den

\* Integer division rounding to nearest (halves away from zero), d > 0.
RoundDiv(n, d) == Sign(n) * ((2 * Abs(n) + d) \div (2 * d))
\* Integer division truncating toward zero, d > 0: C's float-to-int cast.
TruncDiv(n, d) == Sign(n) * (Abs(n) \div d)

RECURSIVE RatSum(_)
RatSum(s) == IF s = <<>> THEN Zero ELSE RatAdd(Head(s), RatSum(Tail(s)))

RECURSIVE RatMax(_)
\* The largest element of a non-empty sequence of rationals.
RatMax(s) ==
    IF Len(s) = 1 THEN s[1]
    ELSE LET m == RatMax(Tail(s)) IN IF RatLess(s[1], m) THEN m ELSE s[1]

----------------------------------------------------------------------------
(* Fixed-point cos, sin and square root. *)

\* The rounding grid of computed floats: one unit is 1/Scale.
Scale == 512
\* The working precision of the cosine series, and pi at that precision.
Prec == 10000
PiPrec == 31416

\* A rational rounded to the grid, as an integer number of units.
ToFix(r) == RoundDiv(r.num * Scale, r.den)
FromFix(n) == Rat(n, Scale)

ToFixSeq(x) == [i \in 1..Len(x) |-> ToFix(x[i])]
FromFixSeq(xf) == [i \in 1..Len(xf) |-> FromFix(xf[i])]

\* cos(x) * Prec for x = xp / Prec in [0, pi/2], by the Taylor series to x^8.
CosSeries(xp) ==
    LET x2 == (xp * xp) \div Prec
        t4 == Prec - (x2 \div 56)
        t3 == Prec - (x2 * t4) \div (30 * Prec)
        t2 == Prec - (x2 * t3) \div (12 * Prec)
    IN  Prec - (x2 * t2) \div (2 * Prec)

\* cos(2 pi p / q) in units of 1/Scale, q > 0.
CosTurns(p, q) ==
    LET r == p % q                                  \* r/q in [0, 1)
        h == IF 2 * r > q THEN q - r ELSE r         \* h/q in [0, 1/2]
        neg == 4 * h > q                            \* second quadrant
        a == IF neg THEN q - 2 * h ELSE 2 * h       \* angle = pi a / q
        xp == (PiPrec * a) \div q
        c == RoundDiv(CosSeries(xp) * Scale, Prec)
    IN  IF 4 * h = q THEN 0 ELSE IF neg THEN -c ELSE c

\* sin(2 pi p / q) = cos(2 pi (p/q - 1/4)).
SinTurns(p, q) == CosTurns(4 * p - q, 4 * q)

RECURSIVE ISqrtIn(_, _, _)
ISqrtIn(n, lo, hi) ==
    IF lo >= hi THEN lo
    ELSE LET mid == (lo + hi + 1) \div 2
         IN  IF mid * mid <= n THEN ISqrtIn(n, mid, hi)
             ELSE ISqrtIn(n, lo, mid - 1)
\* floor(sqrt(n)) for 0 <= n < 2^31.
ISqrt(n) == ISqrtIn(n, 0, 46340)

----------------------------------------------------------------------------
(* scipy.io.wavfile: a wav file and the array read from it. *)

NoFile == [exists |-> FALSE]
WavFile(rate, dtype, channels, frames) ==
    [exists |-> TRUE, rate |-> rate, dtype |-> dtype, channels |-> channels,
     frames |-> frames]

\* numpy: dtype.kind and np.iinfo(dtype).max of the dtypes wavfile.read returns.
Kind(dtype) ==
    CASE dtype = "int16" -> "i"
      [] dtype = "uint8" -> "u"
      [] dtype = "float32" -> "f"
IinfoMax(dtype) ==
    CASE dtype = "int16" -> 32767
      [] dtype = "uint8" -> 255

\* wavfile.read: the data has shape (N,) for one channel, (N, channels) else.
WavRead(f) ==
    IF ~f.exists THEN Raise("FileNotFoundError", "wavfile.read")
    ELSE Ret([rate |-> f.rate, dtype |-> f.dtype,
              ndim |-> IF f.channels = 1 THEN 1 ELSE 2,
              data |-> IF f.channels = 1
                       THEN [i \in 1..Len(f.frames) |-> f.frames[i][1]]
                       ELSE f.frames])

\* An element of the array as a float: integers convert exactly.
AsFloat(dtype, v) == IF Kind(dtype) = "f" THEN v ELSE FromInt(v)

\* np.mean(audio_data, axis=1): the arithmetic mean of each frame.
MeanAxis1(rows) ==
    [i \in 1..Len(rows) |-> RatDiv(RatSum(rows[i]), FromInt(Len(rows[i])))]

----------------------------------------------------------------------------
(* load_audio *)

load_audio(f) ==
    LET r == WavRead(f)
    IN  IF ~r.ok THEN r
        ELSE LET a == r.val
                 \* astype(float) / np.iinfo(dtype).max, for kind 'i' only
                 conv(v) == IF Kind(a.dtype) = "i"
                            THEN Rat(v, IinfoMax(a.dtype))
                            ELSE AsFloat(a.dtype, v)
                 scaled == IF a.ndim = 1
                           THEN [i \in 1..Len(a.data) |-> conv(a.data[i])]
                           ELSE [i \in 1..Len(a.data) |->
                                   [c \in 1..Len(a.data[i]) |-> conv(a.data[i][c])]]
             IN  Ret([sample_rate |-> a.rate,
                      audio_data |-> IF a.ndim > 1 THEN MeanAxis1(scaled) ELSE scaled])

----------------------------------------------------------------------------
(* analyze_spectrum *)

\* np.fft.rfftfreq(n, d): val = 1.0/(n*d); arange(0, n//2 + 1) * val.
Rfftfreq(n, d) ==
    IF n = 0 THEN Raise("ZeroDivisionError", "np.fft.rfftfreq")
    ELSE LET val == RatDiv(One, RatMul(FromInt(n), d))
         IN  Ret([k \in 1..(n \div 2 + 1) |-> RatMul(FromInt(k - 1), val)])

\* The twiddle table of an n-point transform: cos and sin of 2 pi m / n.
Twiddles(n) ==
    [m \in 0..(n - 1) |-> [c |-> CosTurns(m, n), s |-> SinTurns(m, n)]]

RECURSIVE DftSum(_, _, _, _)
\* sum over i < m of x[i] exp(-2 pi j k i / n), x in grid units, times Scale.
DftSum(xf, tw, k, m) ==
    IF m = 0 THEN [re |-> 0, im |-> 0]
    ELSE LET rest == DftSum(xf, tw, k, m - 1)
             w == tw[(k * (m - 1)) % Len(xf)]
         IN  [re |-> rest.re + xf[m] * w.c, im |-> rest.im - xf[m] * w.s]

RfftBins(xf, tw) ==
    [k \in 1..(Len(xf) \div 2 + 1) |->
        LET z == DftSum(xf, tw, k - 1, Len(xf))
        IN  [re |-> RoundDiv(z.re, Scale), im |-> RoundDiv(z.im, Scale)]]

\* np.fft.rfft: the transform at the n//2 + 1 non-negative frequencies.
Rfft(x) ==
    IF Len(x) = 0 THEN Raise("ValueError", "np.fft.rfft")
    ELSE Ret(RfftBins(ToFixSeq(x), Twiddles(Len(x))))

\* np.abs of a complex number: its modulus.
CAbs(z) == FromFix(ISqrt(z.re * z.re + z.im * z.im))

\* A faulty variant: the two-sided bin count n instead of n//2 + 1.
analyze_spectrum_two_sided(signal_data, rate) ==
    LET n == Len(signal_data)
        fr == Rfftfreq(n, Rat(1, rate))
        ft == IF fr.ok THEN Rfft(signal_data) ELSE fr
    IN  IF ~fr.ok THEN fr
        ELSE IF ~ft.ok THEN ft
        ELSE Ret([frequencies |-> [k \in 1..n |-> RatMul(FromInt(k - 1), Rat(rate, n))],
                  magnitudes |-> [k \in 1..Len(ft.val) |-> CAbs(ft.val[k])]])

analyze_spectrum(signal_data, rate) ==
    LET n == Len(signal_data)
        fr == Rfftfreq(n, Rat(1, rate))
        ft == IF fr.ok THEN Rfft(signal_data) ELSE fr
    IN  IF ~fr.ok THEN fr
        ELSE IF ~ft.ok THEN ft
        ELSE Ret([frequencies |-> fr.val,
                  magnitudes |-> [k \in 1..Len(ft.val) |-> CAbs(ft.val[k])]])

----------------------------------------------------------------------------
(* find_carrier_frequency *)

\* The carrier search floor of line 39, in Hz.
CarrierFloor == 1000

RECURSIVE FirstTrue(_, _)
\* The 0-based index of the first TRUE of b at or after index i; Len(b) if none.
FirstTrue(b, i) ==
    IF i >= Len(b) THEN Len(b)
    ELSE IF b[i + 1] THEN i ELSE FirstTrue(b, i + 1)
\* A faulty variant: no True yields the length, as a linear search would.
ArgMaxBool_none_is_len(b) == FirstTrue(b, 0)
\* np.argmax of a boolean array: the first True, and 0 when there is none.
ArgMaxBool(b) == IF FirstTrue(b, 0) = Len(b) THEN 0 ELSE FirstTrue(b, 0)

RECURSIVE ArgMaxFrom(_, _, _)
\* The 0-based index of the first maximum of m, scanning from index i with
\* the best index so far.
ArgMaxFrom(m, i, best) ==
    IF i >= Len(m) THEN best
    ELSE ArgMaxFrom(m, i + 1, IF RatLess(m[best + 1], m[i + 1]) THEN i ELSE best)
\* np.argmax of a non-empty float array: the first occurrence of the maximum.
ArgMax(m) == ArgMaxFrom(m, 1, 0)

RECURSIVE ArgMaxLastFrom(_, _, _)
ArgMaxLastFrom(m, i, best) ==
    IF i >= Len(m) THEN best
    ELSE ArgMaxLastFrom(m, i + 1, IF RatLeq(m[best + 1], m[i + 1]) THEN i ELSE best)

\* magnitudes[start_idx:]
SliceFrom(m, start) == SubSeq(m, start + 1, Len(m))

\* A faulty variant: the search includes the bins at exactly 1000 Hz.
start_idx_inclusive(freqs) ==
    ArgMaxBool([i \in 1..Len(freqs) |-> RatLeq(FromInt(CarrierFloor), freqs[i])])

\* Line 39: start_idx = np.argmax(frequencies > 1000).
start_idx_of(freqs) ==
    ArgMaxBool([i \in 1..Len(freqs) |-> RatLess(FromInt(CarrierFloor), freqs[i])])

\* A faulty variant: the last occurrence of the maximum wins.
peak_idx_last(freqs, mags) ==
    LET s == SliceFrom(mags, start_idx_of(freqs))
    IN  ArgMaxLastFrom(s, 1, 0) + start_idx_of(freqs)

\* Line 40: peak_idx = np.argmax(magnitudes[start_idx:]) + start_idx.
peak_idx_of(freqs, mags) ==
    ArgMax(SliceFrom(mags, start_idx_of(freqs))) + start_idx_of(freqs)

find_carrier_frequency(freqs, mags) ==
    IF Len(freqs) = 0 \/ Len(SliceFrom(mags, start_idx_of(freqs))) = 0
    THEN Raise("ValueError", "np.argmax")      \* argmax of an empty sequence
    ELSE IF peak_idx_of(freqs, mags) >= Len(freqs)
    THEN Raise("IndexError", "frequencies[peak_idx]")
    ELSE Ret(freqs[peak_idx_of(freqs, mags) + 1])

----------------------------------------------------------------------------
(* demodulate_am *)

\* np.cos(2 * np.pi * carrier_freq * t) at t = i / sample_rate, on the grid.
CarrierAt(carrier, rate, i) ==
    LET turns == RatMul(carrier, Rat(i, rate))
    IN  CosTurns(turns.num, turns.den)

demodulate_am(signal_data, rate, carrier) ==
    [i \in 1..Len(signal_data) |->
        FromFix(RoundDiv(ToFix(signal_data[i]) * CarrierAt(carrier, rate, i - 1),
                         Scale))]

----------------------------------------------------------------------------
(* apply_bandpass_filter *)

\* The default order of line 90.
FilterOrder == 5

\* scipy.signal.butter(order, [low, high], btype='band'): the design step.
\* It rejects critical frequencies outside (0, 1) and low >= high; the
\* coefficient vectors b and a of a band-pass have 2*order + 1 entries.
Butter(order, low, high) ==
    IF ~(RatLess(Zero, low) /\ RatLess(Zero, high)
         /\ RatLess(low, One) /\ RatLess(high, One))
    THEN Raise("ValueError", "signal.butter")
    ELSE IF ~RatLess(low, high) THEN Raise("ValueError", "signal.butter")
    ELSE Ret([order |-> order, low |-> low, high |-> high,
              ntaps |-> 2 * order + 1])

\* The band-pass applied forward and backward.  scipy's Butterworth response
\* is library code; its place is taken by the zero-phase band-pass
\* y[n] = (2 x[n] - x[n-2] - x[n+2]) / 4, which like it is linear, keeps the
\* length, and rejects both DC and the Nyquist frequency.
ZeroPhaseBandPass(xf) ==
    LET at(n) == IF n < 1 \/ n > Len(xf) THEN 0 ELSE xf[n]
    IN  [n \in 1..Len(xf) |-> RoundDiv(2 * at(n) - at(n - 2) - at(n + 2), 4)]

\* scipy.signal.filtfilt(b, a, x): padlen = 3 * max(len(a), len(b)), and the
\* input must be longer than padlen.
PadLen(ntaps) == 3 * ntaps
Filtfilt(coef, x) ==
    IF Len(x) <= PadLen(coef.ntaps) THEN Raise("ValueError", "signal.filtfilt")
    ELSE Ret(FromFixSeq(ZeroPhaseBandPass(ToFixSeq(x))))

apply_bandpass_filter(signal_data, rate, lowcut, highcut, order) ==
    LET nyquist == Rat(rate, 2)
        low == RatDiv(FromInt(lowcut), nyquist)
        high == RatDiv(FromInt(highcut), nyquist)
        ba == Butter(order, low, high)
    IN  IF ~ba.ok THEN ba ELSE Filtfilt(ba.val, signal_data)

----------------------------------------------------------------------------
(* save_audio *)

\* The int16 full scale of line 137.
FullScale == 32767

\* astype(np.int16) of NaN is not defined by NumPy: the build decides.
NaNCasts == {-32768, 0}

\* (normalized_signal * 32767).astype(np.int16) of one finite sample.
ToInt16(r) == TruncDiv(r.num * FullScale, r.den)

\* A faulty variant: the samples are scaled without the peak normalisation.
save_audio_unnormalized(signal_data, rate) ==
    IF Len(signal_data) = 0 THEN {Raise("ValueError", "np.max")}
    ELSE {Ret(WavFile(rate, "int16", 1,
                [i \in 1..Len(signal_data) |-> <<ToInt16(signal_data[i])>>]))}

\* The set of outcomes of save_audio: one, unless the peak is 0.
save_audio(signal_data, rate) ==
    IF Len(signal_data) = 0
    THEN {Raise("ValueError", "np.max")}     \* np.max of an empty array
    ELSE LET peak == RatMax([i \in 1..Len(signal_data) |-> RatAbs(signal_data[i])])
         IN  IF peak = Zero
             THEN \* 0/0 = NaN (a RuntimeWarning, no exception), then the cast
                  {Ret(WavFile(rate, "int16", 1,
                        [i \in 1..Len(signal_data) |-> <<c>>])) : c \in NaNCasts}
             ELSE {Ret(WavFile(rate, "int16", 1,
                        [i \in 1..Len(signal_data) |->
                            <<ToInt16(RatDiv(signal_data[i], peak))>>]))}

----------------------------------------------------------------------------
(* main(): the pipeline run. *)

\* Lines 168-169: the fixed cutoffs of the band-pass, in Hz.
lowcut == 20
highcut == 6000

\* The states of the pipeline, in order.
Stages == <<"LOADED", "ANALYZED", "CARRIER_FOUND", "DEMODULATED", "FILTERED",
            "SAVED">>

\* The sample values an input file holds, by encoding: the most negative
\* value, silence, and the most positive value.
Levels(dtype) ==
    IF dtype = "int16" THEN <<-32768, 0, 32767>>
    ELSE <<Rat(-1, 2), Zero, One>>

\* The sample patterns, as indices of levels, each repeated to the length
\* of the file: silence, the two constants, the alternation at half the
\* sample rate, a pulse train, and a tone at a quarter of the sample rate.
Motifs == {<<2>>, <<1>>, <<3>>, <<3, 1>>, <<3, 2>>, <<3, 2, 1, 2>>}

\* The frames of a file of n frames repeating motif m; with two channels the
\* second channel is the first one sample later.
Frames(dtype, channels, n, m) ==
    LET at(i) == Levels(dtype)[m[(i % Len(m)) + 1]]
    IN  [i \in 1..n |-> [c \in 1..channels |-> at(i + c - 2)]]

\* The lengths of the pipeline inputs: the shortest ones, and the ones
\* around the padding of the filter.
InputLengths(extra) ==
    0..2 \cup (PadLen(2 * FilterOrder + 1)..(PadLen(2 * FilterOrder + 1) + extra))

InputFiles(lengths) ==
    {NoFile} \cup
    {WavFile(r, d, c, Frames(d, c, n, m)) :
        r \in Rates, d \in {"int16", "float32"}, c \in {1, 2},
        n \in lengths, m \in Motifs}

\* A faulty variant: an exception is swallowed and the run goes on.
AfterCallSwallowed(r, next) == next

\* main() has no exception handler: a call that raises ends the run.
AfterCall(r, next) == IF r.ok THEN next ELSE "aborted"

Init ==
    /\ pc = "load"
    /\ file \in InputFiles(InputLengths(MaxExtra))
    /\ sample_rate = None
    /\ audio_data = None
    /\ frequencies = None
    /\ magnitudes = None
    /\ carrier_freq = None
    /\ demodulated_signal = None
    /\ filtered_signal = None
    /\ output = NoFile
    /\ error = None
    /\ visited = <<>>
    /\ calls = <<>>
    /\ figures = <<>>
    /\ fn_args = None
    /\ fn_ret = <<>>
    /\ disk = NoFile
    /\ mem = None
    /\ saved = None

\* Line 148: sample_rate, audio_data = load_audio(file_path)
Load ==
    /\ pc = "load"
    /\ LET r == load_audio(file)
       IN  /\ pc' = AfterCall(r, "analyze")
           /\ calls' = Append(calls, "load_audio")
           /\ IF r.ok
              THEN /\ sample_rate' = Some(r.val.sample_rate)
                   /\ audio_data' = Some(r.val.audio_data)
                   /\ visited' = Append(visited, "LOADED")
                   /\ error' = error
              ELSE /\ error' = Some([exc |-> r.exc, at |-> r.at])
                   /\ UNCHANGED <<sample_rate, audio_data, visited>>
    /\ UNCHANGED <<file, frequencies, magnitudes, carrier_freq,
                   demodulated_signal, filtered_signal, output, figures,
                   fnVars, ioVars>>

\* Line 153: frequencies, magnitudes = analyze_spectrum(audio_data, ...)
Analyze ==
    /\ pc = "analyze"
    /\ LET r == analyze_spectrum(audio_data[1], sample_rate[1])
       IN  /\ pc' = AfterCall(r, "find_carrier")
           /\ calls' = Append(calls, "analyze_spectrum")
           /\ IF r.ok
              THEN /\ frequencies' = Some(r.val.frequencies)
                   /\ magnitudes' = Some(r.val.magnitudes)
                   /\ visited' = Append(visited, "ANALYZED")
                   /\ figures' = Append(figures, "Modulated Signal Spectrum")
                   /\ error' = error
              ELSE /\ error' = Some([exc |-> r.exc, at |-> r.at])
                   /\ UNCHANGED <<frequencies, magnitudes, visited, figures>>
    /\ UNCHANGED <<file, sample_rate, audio_data, carrier_freq,
                   demodulated_signal, filtered_signal, output, fnVars, ioVars>>

\* Line 156: carrier_freq = find_carrier_frequency(frequencies, magnitudes)
FindCarrier ==
    /\ pc = "find_carrier"
    /\ LET r == find_carrier_frequency(frequencies[1], magnitudes[1])
       IN  /\ pc' = AfterCall(r, "demodulate")
           /\ calls' = Append(calls, "find_carrier_frequency")
           /\ IF r.ok
              THEN /\ carrier_freq' = Some(r.val)
                   /\ visited' = Append(visited, "CARRIER_FOUND")
                   /\ figures' = Append(figures, "Frequency Spectrum with Carrier")
                   /\ error' = error
              ELSE /\ error' = Some([exc |-> r.exc, at |-> r.at])
                   /\ UNCHANGED <<carrier_freq, visited, figures>>
    /\ UNCHANGED <<file, sample_rate, audio_data, frequencies, magnitudes,
                   demodulated_signal, filtered_signal, output, fnVars, ioVars>>

\* Line 160: demodulated_signal = demodulate_am(audio_data, ..., carrier_freq)
Demodulate ==
    /\ pc = "demodulate"
    /\ pc' = "analyze_demodulated"
    /\ calls' = Append(calls, "demodulate_am")
    /\ demodulated_signal' =
           Some(demodulate_am(audio_data[1], sample_rate[1], carrier_freq[1]))
    /\ visited' = Append(visited, "DEMODULATED")
    /\ figures' = Append(figures, "Demodulated Signal")
    /\ UNCHANGED <<file, sample_rate, audio_data, frequencies, magnitudes,
                   carrier_freq, filtered_signal, output, error, fnVars, ioVars>>

\* Line 163: analyze_spectrum(demodulated_signal, ...), the result discarded
AnalyzeDemodulated ==
    /\ pc = "analyze_demodulated"
    /\ LET r == analyze_spectrum(demodulated_signal[1], sample_rate[1])
       IN  /\ pc' = AfterCall(r, "filter")
           /\ calls' = Append(calls, "analyze_spectrum")
           /\ IF r.ok
              THEN /\ figures' = Append(figures, "Demodulated Signal Spectrum")
                   /\ error' = error
              ELSE /\ error' = Some([exc |-> r.exc, at |-> r.at])
                   /\ figures' = figures
    /\ UNCHANGED <<file, sample_rate, audio_data, frequencies, magnitudes,
                   carrier_freq, demodulated_signal, filtered_signal, output,
                   visited, fnVars, ioVars>>

\* A faulty variant: the filter is given the loaded signal, not the demodulated one.
FilterOfLoaded ==
    /\ pc = "filter"
    /\ LET r == apply_bandpass_filter(audio_data[1], sample_rate[1],
                                      lowcut, highcut, FilterOrder)
       IN  /\ pc' = AfterCall(r, "compare")
           /\ calls' = Append(calls, "apply_bandpass_filter")
           /\ IF r.ok
              THEN /\ filtered_signal' = Some(r.val)
                   /\ visited' = Append(visited, "FILTERED")
                   /\ figures' = Append(figures, "Bandpass Filter Frequency Response")
                   /\ error' = error
              ELSE /\ error' = Some([exc |-> r.exc, at |-> r.at])
                   /\ UNCHANGED <<filtered_signal, visited, figures>>
    /\ UNCHANGED <<file, sample_rate, audio_data, frequencies, magnitudes,
                   carrier_freq, demodulated_signal, output, fnVars, ioVars>>

\* Lines 168-170: filtered_signal = apply_bandpass_filter(demodulated_signal,
\* sample_rate, lowcut, highcut)
Filter ==
    /\ pc = "filter"
    /\ LET r == apply_bandpass_filter(demodulated_signal[1], sample_rate[1],
                                      lowcut, highcut, FilterOrder)
       IN  /\ pc' = AfterCall(r, "compare")
           /\ calls' = Append(calls, "apply_bandpass_filter")
           /\ IF r.ok
              THEN /\ filtered_signal' = Some(r.val)
                   /\ visited' = Append(visited, "FILTERED")
                   /\ figures' = Append(figures, "Bandpass Filter Frequency Response")
                   /\ error' = error
              ELSE /\ error' = Some([exc |-> r.exc, at |-> r.at])
                   /\ UNCHANGED <<filtered_signal, visited, figures>>
    /\ UNCHANGED <<file, sample_rate, audio_data, frequencies, magnitudes,
                   carrier_freq, demodulated_signal, output, fnVars, ioVars>>

\* Line 175: compare_signals(demodulated_signal, filtered_signal, ...): the
\* time-domain figure and the two spectra of lines 131-132, results discarded
compare_signals ==
    /\ pc = "compare"
    /\ LET r1 == analyze_spectrum(demodulated_signal[1], sample_rate[1])
           r2 == analyze_spectrum(filtered_signal[1], sample_rate[1])
           r == IF r1.ok THEN r2 ELSE r1
       IN  /\ pc' = AfterCall(r, "save")
           /\ calls' = calls \o <<"compare_signals", "analyze_spectrum",
                                  "analyze_spectrum">>
           /\ IF r.ok
              THEN /\ figures' = figures \o <<"Original vs Filtered Signal",
                                              "Original Signal Spectrum",
                                              "Filtered Signal Spectrum">>
                   /\ error' = error
              ELSE /\ error' = Some([exc |-> r.exc, at |-> r.at])
                   /\ figures' = figures
    /\ UNCHANGED <<file, sample_rate, audio_data, frequencies, magnitudes,
                   carrier_freq, demodulated_signal, filtered_signal, output,
                   visited, fnVars, ioVars>>

\* Lines 178-179: save_audio(filtered_signal, sample_rate, output_file).
\* wavfile.write raises when the output file cannot be opened for writing.
Save ==
    /\ pc = "save"
    /\ \E r \in save_audio(filtered_signal[1], sample_rate[1])
                  \cup {Raise("PermissionError", "wavfile.write")} :
           /\ pc' = AfterCall(r, "done")
           /\ calls' = Append(calls, "save_audio")
           /\ IF r.ok
              THEN /\ output' = r.val
                   /\ visited' = Append(visited, "SAVED")
                   /\ error' = error
              ELSE /\ error' = Some([exc |-> r.exc, at |-> r.at])
                   /\ UNCHANGED <<output, visited>>
    /\ UNCHANGED <<file, sample_rate, audio_data, frequencies, magnitudes,
                   carrier_freq, demodulated_signal, filtered_signal, figures,
                   fnVars, ioVars>>

Next ==
    \/ Load
    \/ Analyze
    \/ FindCarrier
    \/ Demodulate
    \/ AnalyzeDemodulated
    \/ Filter
    \/ compare_signals
    \/ Save

Spec == Init /\ [][Next]_vars

----------------------------------------------------------------------------
(* Single calls of find_carrier_frequency and of analyze_spectrum. *)

\* The state of main() while it is not running.
MainIdle ==
    /\ pc = "idle"
    /\ file = NoFile
    /\ sample_rate = None
    /\ audio_data = None
    /\ frequencies = None
    /\ magnitudes = None
    /\ carrier_freq = None
    /\ demodulated_signal = None
    /\ filtered_signal = None
    /\ output = NoFile
    /\ error = None
    /\ visited = <<>>
    /\ calls = <<>>
    /\ figures = <<>>
IOIdle == disk = NoFile /\ mem = None /\ saved = None

\* The spectra handed to find_carrier_frequency: the frequency grid of an
\* n-sample signal at each rate, with every choice of magnitudes.
CarrierInputs(maxN, maxMag) ==
    UNION {
        {[frequencies |-> Rfftfreq(n, Rat(1, r)).val,
          magnitudes |-> [k \in 1..(n \div 2 + 1) |-> FromInt(m[k])]] :
            m \in [1..(n \div 2 + 1) -> 0..maxMag]} :
        n \in 1..maxN, r \in Rates}

InitCarrier ==
    /\ MainIdle
    /\ IOIdle
    /\ fn_args \in {Some(a) : a \in CarrierInputs(MaxGridN, MaxMag)}
    /\ fn_ret = <<>>

CallFindCarrier ==
    /\ Len(fn_ret) < MaxCalls
    /\ fn_ret' = Append(fn_ret,
           find_carrier_frequency(fn_args[1].frequencies, fn_args[1].magnitudes))
    /\ UNCHANGED <<fn_args, mainVars, ioVars>>

NextCarrier == CallFindCarrier
SpecCarrier == InitCarrier /\ [][NextCarrier]_vars

\* The sample values of the signals handed to analyze_spectrum.
SpectrumLevels == {Rat(-32768, 32767), Zero, Rat(1, 2)}
SpectrumInputs(maxN) ==
    UNION {
        {[signal_data |-> x, sample_rate |-> r] : x \in [1..n -> SpectrumLevels]} :
        n \in 0..maxN, r \in Rates}

InitSpectrum ==
    /\ MainIdle
    /\ IOIdle
    /\ fn_args \in {Some(a) : a \in SpectrumInputs(MaxN)}
    /\ fn_ret = <<>>

CallAnalyzeSpectrum ==
    /\ Len(fn_ret) < MaxCalls
    /\ fn_ret' = Append(fn_ret,
           analyze_spectrum(fn_args[1].signal_data, fn_args[1].sample_rate))
    /\ UNCHANGED <<fn_args, mainVars, ioVars>>

NextSpectrum == CallAnalyzeSpectrum
SpecSpectrum == InitSpectrum /\ [][NextSpectrum]_vars

----------------------------------------------------------------------------
(* save_audio and load_audio on one file: the round trip. *)

\* The sample values a wav file holds, by encoding.
FileLevels(dtype) ==
    CASE dtype = "int16" -> {-32768, -1, 0, 32767}
      [] dtype = "uint8" -> {0, 128, 255}
      [] dtype = "float32" -> {Rat(-1, 2), Zero, One}
DiskFiles(maxFrames) ==
    UNION {
        {WavFile(r, d, c, fr) : fr \in [1..n -> [1..c -> FileLevels(d)]]} :
        r \in Rates, d \in {"int16", "uint8", "float32"}, c \in {1, 2},
        n \in 0..maxFrames}

\* The sample values of a waveform in memory.
MemLevels == {FromInt(-1), Rat(-1, 2), Zero, Rat(1, 3), One}
Waveform(rate, data, dtype, reloaded) ==
    [rate |-> rate, data |-> data, loaded_from |-> dtype, reloaded |-> reloaded]
MemWaveforms(maxFrames) ==
    UNION {
        {Waveform(r, x, "none", FALSE) : x \in [1..n -> MemLevels]} :
        r \in Rates, n \in 0..maxFrames}

InitIO ==
    /\ MainIdle
    /\ fn_args = None
    /\ fn_ret = <<>>
    /\ saved = None
    /\ \/ disk \in DiskFiles(MaxFrames) /\ mem = None
       \/ disk = NoFile /\ mem \in {Some(w) : w \in MemWaveforms(MaxFrames)}

\* load_audio(file_path) of the file on disk.  reloaded: the file was
\* written by save_audio from the waveform recorded in saved.
IOLoad ==
    /\ disk.exists
    /\ LET r == load_audio(disk)
       IN  mem' = Some(Waveform(r.val.sample_rate, r.val.audio_data,
                                disk.dtype, saved # None))
    /\ UNCHANGED <<disk, saved, fnVars, mainVars>>

\* save_audio(signal_data, sample_rate, file_path) of the waveform in memory;
\* a call that raises writes nothing.
IOSave ==
    /\ mem # None
    /\ \E r \in save_audio(mem[1].data, mem[1].rate) :
           /\ r.ok
           /\ disk' = r.val
    /\ saved' = Some([rate |-> mem[1].rate, data |-> mem[1].data])
    /\ mem' = Some([mem[1] EXCEPT !.reloaded = FALSE])
    /\ UNCHANGED <<fnVars, mainVars>>

NextIO == IOLoad \/ IOSave
SpecIO == InitIO /\ [][NextIO]_vars

----------------------------------------------------------------------------
(* The properties of find_carrier_frequency, under SpecCarrier. *)

\* The bins of a frequency grid that lie strictly above 1000 Hz.
Above(freqs) == {j \in 1..Len(freqs) : RatLess(FromInt(1000), freqs[j])}
\* The bins the carrier is to be searched in: those above 1000 Hz, and the
\* whole spectrum when there is none.
Searched(freqs) == IF Above(freqs) # {} THEN Above(freqs) ELSE 1..Len(freqs)
\* The bins of S whose magnitude is the largest of S.
Peaks(mags, S) == {p \in S : \A j \in S : RatLeq(mags[j], mags[p])}
Lowest(S) == CHOOSE x \in S : \A y \in S : x <= y

\* C1: when some bin lies above 1000 Hz, the returned frequency is that of a
\* bin strictly above 1000 Hz whose magnitude is at least that of every other
\* bin above 1000 Hz; a bin at or below 1000 Hz is never returned.
C1_CarrierAboveFloor ==
    \A c \in 1..Len(fn_ret) :
        LET f == fn_args[1].frequencies
            m == fn_args[1].magnitudes
            r == fn_ret[c]
        IN  Above(f) # {} =>
                /\ r.ok
                /\ RatLess(FromInt(1000), r.val)
                /\ \E p \in Above(f) :
                       /\ f[p] = r.val
                       /\ \A j \in Above(f) : RatLeq(m[j], m[p])
                /\ \A j \in (1..Len(f)) \ Above(f) : f[j] # r.val

\* C1's case: a call on a spectrum whose global maximum is held by a bin at
\* or below 1000 Hz, with bins above 1000 Hz present.
C1_Witness ==
    /\ fn_ret # <<>>
    /\ Above(fn_args[1].frequencies) # {}
    /\ \E j \in (1..Len(fn_args[1].frequencies)) \ Above(fn_args[1].frequencies) :
           \A p \in Above(fn_args[1].frequencies) :
               RatLess(fn_args[1].magnitudes[p], fn_args[1].magnitudes[j])

\* C2: when every bin is at or below 1000 Hz, the search starts at index 0,
\* no exception is raised (the peak index is within bounds, the result is
\* not empty), and the returned frequency is that of a bin holding the
\* maximum magnitude of the whole spectrum.
C2_FallbackFullSpectrum ==
    \A c \in 1..Len(fn_ret) :
        LET f == fn_args[1].frequencies
            m == fn_args[1].magnitudes
            r == fn_ret[c]
        IN  (Len(f) > 0 /\ Above(f) = {}) =>
                /\ start_idx_of(f) = 0
                /\ r.ok
                /\ \E p \in 1..Len(f) :
                       /\ f[p] = r.val
                       /\ \A j \in 1..Len(f) : RatLeq(m[j], m[p])

\* C2's case: a call on a spectrum with no bin above 1000 Hz whose maximum
\* is not at index 0.
C2_Witness ==
    /\ fn_ret # <<>>
    /\ Above(fn_args[1].frequencies) = {}
    /\ Len(fn_args[1].frequencies) >= 2
    /\ RatLess(fn_args[1].magnitudes[1], fn_args[1].magnitudes[2])

\* C3: among the bins of the searched range that share the maximum
\* magnitude, the one with the lowest index is returned, and every call on
\* the same spectrum returns the same frequency.
C3_FirstOfTies ==
    /\ \A c \in 1..Len(fn_ret) :
           LET f == fn_args[1].frequencies
               m == fn_args[1].magnitudes
           IN  /\ fn_ret[c].ok
               /\ fn_ret[c].val = f[Lowest(Peaks(m, Searched(f)))]
    /\ \A c1, c2 \in 1..Len(fn_ret) : fn_ret[c1] = fn_ret[c2]

\* C3's case: two calls on a spectrum with a tie for the maximum among the
\* bins above 1000 Hz.
C3_Witness ==
    /\ Len(fn_ret) >= 2
    /\ Above(fn_args[1].frequencies) # {}
    /\ Cardinality(Peaks(fn_args[1].magnitudes, Above(fn_args[1].frequencies))) >= 2

----------------------------------------------------------------------------
(* The properties of analyze_spectrum, under SpecSpectrum. *)

\* C10: for a signal of N >= 1 samples at rate R, analyze_spectrum returns
\* frequencies and magnitudes of the same length floor(N/2) + 1; bin k is
\* k R / N, so the bins start at 0 and increase by R / N; no magnitude is
\* negative.
C10_SpectrumShape ==
    \A c \in 1..Len(fn_ret) :
        LET N == Len(fn_args[1].signal_data)
            R == fn_args[1].sample_rate
            r == fn_ret[c]
        IN  N >= 1 =>
                /\ r.ok
                /\ Len(r.val.frequencies) = (N \div 2) + 1
                /\ Len(r.val.magnitudes) = Len(r.val.frequencies)
                /\ r.val.frequencies[1] = Zero
                /\ \A k \in 1..Len(r.val.frequencies) :
                       /\ r.val.frequencies[k].num * N
                              = (k - 1) * R * r.val.frequencies[k].den
                       /\ r.val.frequencies[k].num >= 0
                       /\ r.val.magnitudes[k].num >= 0
                       /\ r.val.magnitudes[k].den > 0
                /\ \A k \in 1..(Len(r.val.frequencies) - 1) :
                       /\ RatLess(r.val.frequencies[k], r.val.frequencies[k + 1])
                       /\ RatAdd(r.val.frequencies[k + 1],
                                 RatNeg(r.val.frequencies[k])) = Rat(R, N)

\* C10's case: a call on a signal of odd length 3 with a non-zero spectrum.
C10_Witness ==
    /\ fn_ret # <<>>
    /\ Len(fn_args[1].signal_data) = 3
    /\ fn_ret[1].ok
    /\ \E k \in 1..Len(fn_ret[1].val.magnitudes) :
           fn_ret[1].val.magnitudes[k].num > 0

----------------------------------------------------------------------------
(* The properties of load_audio and save_audio, under SpecIO. *)

InUnitRange(x) == \A i \in 1..Len(x) : RatLeq(RatAbs(x[i]), One)
AllZero(x) == \A i \in 1..Len(x) : x[i] = Zero
\* |a - b| <= 1/32767
WithinQuantum(a, b) ==
    Abs(a.num * b.den - b.num * a.den) <= (a.den * b.den) \div 32767

\* C8: every sample load_audio returns for an integer-PCM file lies in
\* [-1, 1], the most negative value of the type included, also after the
\* channels of a multi-channel file are averaged.
C8_LoadedInUnitRange ==
    (mem # None /\ mem[1].loaded_from \in {"int16", "uint8"})
        => InUnitRange(mem[1].data)

\* The waveform in memory is the reload of the file save_audio wrote from a
\* non-degenerate waveform with samples in [-1, 1].
RoundTripDone ==
    /\ mem # None
    /\ saved # None
    /\ mem[1].reloaded
    /\ Len(saved[1].data) > 0
    /\ ~AllZero(saved[1].data)
    /\ InUnitRange(saved[1].data)

\* C9 as stated: the reloaded waveform has the rate and the length of the
\* saved one, and each sample is within 1/32767 of the saved sample.
C9_RoundTripIdentity ==
    RoundTripDone =>
        /\ mem[1].rate = saved[1].rate
        /\ Len(mem[1].data) = Len(saved[1].data)
        /\ \A i \in 1..Len(saved[1].data) :
               WithinQuantum(mem[1].data[i], saved[1].data[i])

\* The peak of a waveform: the largest absolute sample.
Peak(x) == RatMax([i \in 1..Len(x) |-> RatAbs(x[i])])

\* C9 as amended: the reloaded waveform has the rate and the length of the
\* saved one, and each sample is within 1/32767 of the saved sample divided
\* by the peak of the saved waveform.
C9_RoundTripNormalized ==
    RoundTripDone =>
        /\ mem[1].rate = saved[1].rate
        /\ Len(mem[1].data) = Len(saved[1].data)
        /\ \A i \in 1..Len(saved[1].data) :
               WithinQuantum(mem[1].data[i],
                             RatDiv(saved[1].data[i], Peak(saved[1].data)))

\* C9's case: the reload of a saved waveform whose peak is below 1 and
\* whose samples are not all of the same magnitude.
C9_Witness ==
    /\ RoundTripDone
    /\ RatLess(Peak(saved[1].data), One)
    /\ \E i \in 1..Len(saved[1].data) :
           RatLess(RatAbs(saved[1].data[i]), Peak(saved[1].data))

----------------------------------------------------------------------------
(* The properties of the pipeline run, under Spec. *)

Count(seq, x) == Cardinality({i \in 1..Len(seq) : seq[i] = x})
Ended == pc \in {"done", "aborted"}

\* A degenerate waveform: fewer than 2 samples, or only zero samples.
Degenerate(x) == Len(x) < 2 \/ AllZero(x)

\* C4: a run whose loaded waveform is degenerate ends in a DegenerateSignal
\* error and writes no output file.
C4_DegenerateSignalRaised ==
    (Ended /\ audio_data # None /\ Degenerate(audio_data[1])) =>
        /\ error # None
        /\ error[1].exc = "DegenerateSignal"
        /\ output = NoFile

\* 0 < low < high < sample_rate / 2
ValidFilterSpec(low, high, rate) == 0 < low /\ low < high /\ 2 * high < rate

\* C5: once apply_bandpass_filter has been called with cutoffs that are not
\* within 0 < low < high < sample_rate/2, the run has ended in an
\* InvalidFilterSpec error raised before the design step, and there is no
\* filtered signal.
C5_InvalidFilterSpecRaised ==
    (Count(calls, "apply_bandpass_filter") > 0
        /\ ~ValidFilterSpec(lowcut, highcut, sample_rate[1])) =>
        /\ error # None
        /\ error[1].exc = "InvalidFilterSpec"
        /\ error[1].at # "signal.butter"
        /\ filtered_signal = None

\* The calls main() makes, in program order.
ProgramCalls ==
    <<"load_audio", "analyze_spectrum", "find_carrier_frequency",
      "demodulate_am", "analyze_spectrum", "apply_bandpass_filter",
      "compare_signals", "analyze_spectrum", "analyze_spectrum", "save_audio">>

C7_DataFlow ==
    /\ Len(visited) <= Len(Stages)
    /\ visited = SubSeq(Stages, 1, Len(visited))
    /\ pc = "done" => visited = Stages
    /\ Count(calls, "find_carrier_frequency") <= 1
    /\ carrier_freq # None => Count(calls, "find_carrier_frequency") = 1
    /\ audio_data # None =>
           load_audio(file) = Ret([sample_rate |-> sample_rate[1],
                                   audio_data |-> audio_data[1]])
    /\ pc = "find_carrier" =>
           analyze_spectrum(audio_data[1], sample_rate[1])
               = Ret([frequencies |-> frequencies[1],
                      magnitudes |-> magnitudes[1]])
    /\ carrier_freq # None =>
           find_carrier_frequency(frequencies[1], magnitudes[1])
               = Ret(carrier_freq[1])
    /\ demodulated_signal # None =>
           demodulated_signal[1]
               = demodulate_am(audio_data[1], sample_rate[1], carrier_freq[1])
    /\ filtered_signal # None =>
           apply_bandpass_filter(demodulated_signal[1], sample_rate[1],
                                 lowcut, highcut, FilterOrder)
               = Ret(filtered_signal[1])
    /\ output.exists =>
           Ret(output) \in save_audio(filtered_signal[1], sample_rate[1])

\* Once a stage has produced its result, no later step changes it.
C7_Immutable ==
    /\ audio_data # None => UNCHANGED <<sample_rate, audio_data>>
    /\ frequencies # None => UNCHANGED <<frequencies, magnitudes>>
    /\ carrier_freq # None => UNCHANGED carrier_freq
    /\ demodulated_signal # None => UNCHANGED demodulated_signal
    /\ filtered_signal # None => UNCHANGED filtered_signal
    /\ visited = SubSeq(visited', 1, Len(visited))

\* C7: the stages LOADED, ANALYZED, CARRIER_FOUND, DEMODULATED, FILTERED,
\* SAVED are completed in that order, each once, and a finished run has
\* completed all six; the carrier is estimated once, from the spectrum of
\* the loaded signal, and no later step changes it; the demodulator is given
\* the loaded signal and that carrier, the filter the demodulator's output,
\* and save the filter's output.
C7_StagesInOrder == [](C7_DataFlow) /\ [][C7_Immutable]_vars

\* C7's case: a finished run on a signal that is not silent, with a carrier
\* above 1000 Hz.
C7_Witness ==
    /\ pc = "done"
    /\ visited = Stages
    /\ RatLess(FromInt(1000), carrier_freq[1])
    /\ ~AllZero(filtered_signal[1])
    /\ demodulated_signal # audio_data

=============================================================================
